---- MODULE Spec2Model ----
(***************************************************************************)
(* Model of the image-captioning data pipeline:                             *)
(*   dataset/flickr_dataset.py  Vocabulary, FlickrConvRNN, BatchCollateFn   *)
(*   utils/utils.py             get_vocabulary                              *)
(*   utils/callbacks.py         Callbacks, EarlyStopping                    *)
(*                                                                          *)
(* A Python str is a sequence of characters, each character a one-element   *)
(* string; a dict is a function whose DOMAIN is its key set; a list is a    *)
(* sequence.                                                                *)
(***************************************************************************)
EXTENDS Integers, Sequences, FiniteSets, TLC

VARIABLES
    raw, tokens,                      \* tokenizer input / output
    vocab, seq, enc, dec,             \* Vocabulary object, encode/decode call
    corpus, built,                    \* get_vocabulary input, "returned" flag
    image_ids, labels, first_caption_only, data, batch,   \* FlickrConvRNN, loader
    mode, patience, threshold, save_final_model,          \* EarlyStopping
    best_score, num_bad_epoch, ret, best_model_pt, final_model_pt, epoch

vars == <<raw, tokens, vocab, seq, enc, dec, corpus, built,
          image_ids, labels, first_caption_only, data, batch,
          mode, patience, threshold, save_final_model,
          best_score, num_bad_epoch, ret, best_model_pt, final_model_pt, epoch>>

tokVars   == <<raw, tokens>>
vocabVars == <<seq, enc, dec>>
buildVars == <<corpus, built>>
dataVars  == <<image_ids, labels, first_caption_only, data, batch>>
esVars    == <<mode, patience, threshold, save_final_model,
               best_score, num_bad_epoch, ret, best_model_pt, final_model_pt, epoch>>

None == "none"

(***************************************************************************)
(* Bounds                                                                   *)
(***************************************************************************)
MaxRawLen  == 4     \* longest enumerated raw caption (characters)
MaxSeqLen  == 2     \* longest token sequence passed to encode_seq
MaxCorpus  == 4     \* most rows of the label file scanned by get_vocabulary
MaxRecords == 3     \* most rows of the label file read by FlickrConvRNN
MaxBatch   == 3     \* most samples handed to BatchCollateFn
MaxCalls   == 4     \* most EarlyStopping calls
MaxScore   == 2     \* scores are 0..MaxScore
MaxPatience == 2    \* patience is 1..MaxPatience
MaxThreshold == 1   \* threshold is 0..MaxThreshold

(***************************************************************************)
(* Characters and the str methods the tokenizer uses                        *)
(***************************************************************************)
LowerSeq == <<"a","b","c","d","e","f","g","h","i","j","k","l","m",
              "n","o","p","q","r","s","t","u","v","w","x","y","z">>
UpperSeq == <<"A","B","C","D","E","F","G","H","I","J","K","L","M",
              "N","O","P","Q","R","S","T","U","V","W","X","Y","Z">>
DigitSeq == <<"0","1","2","3","4","5","6","7","8","9">>

Range(s) == {s[i] : i \in DOMAIN s}

\* the class [a-zA-Z0-9] of the regular expression
AsciiAlnum == Range(LowerSeq) \cup Range(UpperSeq) \cup Range(DigitSeq)
\* a letter outside ASCII (e-acute): str.isalnum() accepts it, the regex does not
UnicodeAlnum == {"U+00E9"}
Whitespace == {" "}

\* str.lower(), one character
LowerChar(c) ==
    IF c \in Range(UpperSeq)
    THEN LowerSeq[CHOOSE i \in DOMAIN UpperSeq : UpperSeq[i] = c]
    ELSE c

\* str.lower()
StrLower(s) == [i \in DOMAIN s |-> LowerChar(s[i])]

\* str.isalnum(): every character alphanumeric and at least one character
StrIsAlnum(s) == Len(s) > 0 /\ \A i \in DOMAIN s : s[i] \in AsciiAlnum \cup UnicodeAlnum

\* re.sub(r'[^a-zA-Z0-9]', '', s)
ReSubNonAlnum(s) == SelectSeq(s, LAMBDA c : c \in AsciiAlnum)

RECURSIVE SplitAcc(_, _, _, _)
SplitAcc(s, i, out, cur) ==
    IF i > Len(s)
    THEN IF cur = <<>> THEN out ELSE Append(out, cur)
    ELSE IF s[i] \in Whitespace
         THEN SplitAcc(s, i + 1, IF cur = <<>> THEN out ELSE Append(out, cur), <<>>)
         ELSE SplitAcc(s, i + 1, out, Append(cur, s[i]))

\* str.split(): pieces between runs of whitespace, no empty piece
StrSplit(s) == SplitAcc(s, 1, <<>>, <<>>)

RECURSIVE LStrip(_)
LStrip(s) == IF s # <<>> /\ Head(s) \in Whitespace THEN LStrip(Tail(s)) ELSE s

RECURSIVE RStrip(_)
RStrip(s) ==
    IF s # <<>> /\ s[Len(s)] \in Whitespace THEN RStrip(SubSeq(s, 1, Len(s) - 1)) ELSE s

\* str.strip()
StrStrip(s) == RStrip(LStrip(s))

\* the list comprehension of flickr_dataset.py:103, one piece
NormalizePiece(token) == ReSubNonAlnum(StrLower(token))

\* tokens = caption.split(); keep the alnum pieces, lowercase and strip them;
\* remove the empty ones (flickr_dataset.py:102-104)
Tokenize(caption) ==
    LET pieces == StrSplit(caption)
        kept   == SelectSeq(pieces, StrIsAlnum)
        mapped == [i \in DOMAIN kept |-> NormalizePiece(kept[i])]
    IN  SelectSeq(mapped, LAMBDA t : Len(t) > 0)

\* the same three lines as copied into get_vocabulary (utils.py:38-40)
VocabTokenize(caption) ==
    LET pieces == StrSplit(caption)
        kept   == SelectSeq(pieces, StrIsAlnum)
        mapped == [i \in DOMAIN kept |-> NormalizePiece(kept[i])]
    IN  SelectSeq(mapped, LAMBDA t : Len(t) > 0)

(***************************************************************************)
(* Bounded sequences                                                        *)
(***************************************************************************)
RECURSIVE SeqsUpTo(_, _)
SeqsUpTo(S, n) ==
    IF n = 0 THEN {<<>>}
    ELSE LET shorter == SeqsUpTo(S, n - 1)
         IN  shorter \cup {Append(s, x) : s \in shorter, x \in S}

(***************************************************************************)
(* dataset/enums.py: the four reserved words                                *)
(***************************************************************************)
PAD       == <<"<", "p", "a", "d", ">">>
UNK_WORD  == <<"<", "u", "n", "k", ">">>
START_SEQ == <<"<", "s", "t", "a", "r", "t", ">">>
END_SEQ   == <<"<", "e", "n", "d", ">">>

Reserved == {PAD, UNK_WORD, START_SEQ, END_SEQ}

(***************************************************************************)
(* class Vocabulary                                                         *)
(***************************************************************************)
\* Vocabulary.__init__
Vocabulary_init ==
    LET w2i == (PAD :> 0) @@ (UNK_WORD :> 1) @@ (START_SEQ :> 2) @@ (END_SEQ :> 3)
    IN  [word2idx |-> w2i,
         idx2word |-> [i \in {w2i[w] : w \in DOMAIN w2i} |->
                          CHOOSE w \in DOMAIN w2i : w2i[w] = i],
         idx      |-> 4]

\* a slip add_word could have: no membership test, the word is always (re)assigned
add_word_always(v, word) ==
    [word2idx |-> [w \in DOMAIN v.word2idx \cup {word} |->
                      IF w = word THEN v.idx ELSE v.word2idx[w]],
     idx2word |-> [i \in DOMAIN v.idx2word \cup {v.idx} |->
                      IF i = v.idx THEN word ELSE v.idx2word[i]],
     idx      |-> v.idx + 1]

\* Vocabulary.add_word
add_word(v, word) ==
    IF word \notin DOMAIN v.word2idx
    THEN [word2idx |-> [w \in DOMAIN v.word2idx \cup {word} |->
                           IF w = word THEN v.idx ELSE v.word2idx[w]],
          idx2word |-> [i \in DOMAIN v.idx2word \cup {v.idx} |->
                           IF i = v.idx THEN word ELSE v.idx2word[i]],
          idx      |-> v.idx + 1]
    ELSE v

\* a slip __call__ could have: the fallback id is PAD's instead of UNK's
Vocabulary_call_pad(v, word) ==
    IF word \notin DOMAIN v.word2idx THEN v.word2idx[PAD] ELSE v.word2idx[word]

\* Vocabulary.__call__
Vocabulary_call(v, word) ==
    IF word \notin DOMAIN v.word2idx THEN v.word2idx[UNK_WORD] ELSE v.word2idx[word]

\* Vocabulary.__len__
Vocabulary_len(v) == Cardinality(DOMAIN v.word2idx)

\* Vocabulary.encode_seq
encode_seq(v, s) == [i \in DOMAIN s |-> Vocabulary_call(v, s[i])]

\* Vocabulary.decode_seq: a dict lookup, KeyError on an id with no entry
decode_seq(v, seq_idx) ==
    IF \A i \in DOMAIN seq_idx : seq_idx[i] \in DOMAIN v.idx2word
    THEN [status |-> "ok", value |-> [i \in DOMAIN seq_idx |-> v.idx2word[seq_idx[i]]]]
    ELSE [status |-> "KeyError", value |-> <<>>]

(***************************************************************************)
(* Values of the variables a specification does not use                     *)
(***************************************************************************)
NoResult == [status |-> None, value |-> <<>>]
NoBatch  == [status |-> None, images |-> <<>>, captions_padded |-> <<>>,
             lengths |-> <<>>, all_captions |-> <<>>]

IdleTok   == raw = <<>> /\ tokens = NoResult
IdleVocab == vocab = Vocabulary_init /\ seq = <<>> /\ enc = NoResult /\ dec = NoResult
IdleBuild == corpus = <<>> /\ built = FALSE
IdleData  == /\ image_ids = <<>> /\ labels = <<>> /\ first_caption_only = FALSE
             /\ data = <<>> /\ batch = NoBatch
IdleES    == /\ mode = "max" /\ patience = 1 /\ threshold = 0
             /\ save_final_model = FALSE /\ best_score = 0 /\ num_bad_epoch = 0
             /\ ret = None /\ best_model_pt = 0 /\ final_model_pt = 0 /\ epoch = 0

(***************************************************************************)
(* Tokenizer specification: a raw caption is drawn, the tokenizer applied   *)
(***************************************************************************)
TokAlphabet == {"A", "a", "1", ",", " ", "U+00E9"}

\* "A cat, sitting!"
ExampleCaption == <<"A", " ", "c", "a", "t", ",", " ",
                    "s", "i", "t", "t", "i", "n", "g", "!">>

RawCaptions == SeqsUpTo(TokAlphabet, MaxRawLen) \cup {ExampleCaption}

InitTok ==
    /\ raw \in RawCaptions
    /\ tokens = NoResult
    /\ IdleVocab /\ IdleBuild /\ IdleData /\ IdleES

\* the tokenizing lines of FlickrConvRNN.__getitem__ applied to one caption
TokenizeCaption ==
    /\ tokens.status = None
    /\ tokens' = [status |-> "ok", value |-> Tokenize(raw)]
    /\ UNCHANGED <<raw, vocab>>
    /\ UNCHANGED <<vocabVars, buildVars, dataVars, esVars>>

NextTok == TokenizeCaption

SpecTok == InitTok /\ [][NextTok]_vars

(***************************************************************************)
(* Vocabulary specification: construction, add_word calls, encode/decode    *)
(***************************************************************************)
WordA   == <<"a">>
WordB   == <<"b">>
WordCat == <<"c", "a", "t">>
WordOne == <<"1">>

\* words handed to add_word: ordinary words and the reserved strings themselves
AddPool == Reserved \cup {WordA, WordB, WordCat}
\* tokens handed to encode_seq: markers, words that may be known, a word never known
TokenPool == {START_SEQ, UNK_WORD, WordA, WordCat, WordOne}

InitVocab ==
    /\ vocab = Vocabulary_init
    /\ seq = <<>> /\ enc = NoResult /\ dec = NoResult
    /\ IdleTok /\ IdleBuild /\ IdleData /\ IdleES

AddWord(word) ==
    /\ vocab' = add_word(vocab, word)
    /\ UNCHANGED <<vocabVars, tokVars, buildVars, dataVars, esVars>>

\* vocab.decode_seq(vocab.encode_seq(s))
EncodeDecode(s) ==
    /\ seq' = s
    /\ enc' = [status |-> "ok", value |-> encode_seq(vocab, s)]
    /\ dec' = decode_seq(vocab, encode_seq(vocab, s))
    /\ UNCHANGED <<vocab, tokVars, buildVars, dataVars, esVars>>

NextVocab ==
    \/ \E word \in AddPool : AddWord(word)
    \/ \E s \in SeqsUpTo(TokenPool, MaxSeqLen) : EncodeDecode(s)

SpecVocab == InitVocab /\ [][NextVocab]_vars

(***************************************************************************)
(* utils.get_vocabulary                                                     *)
(***************************************************************************)
\* the literal 5 of `if count >= 5`
MinFrequency == 5

\* a slip the comparison could have: strictly more than the threshold
MeetsThresholdStrict(count) == count > MinFrequency

\* count >= 5
MeetsThreshold(count) == count >= MinFrequency

\* token_counts = defaultdict(int): keys in insertion order, and the counts
EmptyCounts == [keys |-> <<>>, count |-> [t \in {} |-> 0]]

\* token_counts[token] += 1
CountToken(tc, token) ==
    IF token \in DOMAIN tc.count
    THEN [tc EXCEPT !.count[token] = @ + 1]
    ELSE [keys |-> Append(tc.keys, token), count |-> tc.count @@ (token :> 1)]

RECURSIVE CountTokens(_, _, _)
\* for token in tokens: token_counts[token] += 1
CountTokens(tc, toks, i) ==
    IF i > Len(toks) THEN tc ELSE CountTokens(CountToken(tc, toks[i]), toks, i + 1)

RECURSIVE CountRecords(_, _, _)
\* for record in records: strip, tokenize, count
CountRecords(tc, records, i) ==
    IF i > Len(records) THEN tc
    ELSE CountRecords(CountTokens(tc, VocabTokenize(StrStrip(records[i].comment)), 1),
                      records, i + 1)

RECURSIVE AssignIds(_, _, _)
\* for token, count in token_counts.items(): if count >= 5: vocab.add_word(token)
AssignIds(v, tc, i) ==
    IF i > Len(tc.keys) THEN v
    ELSE AssignIds(IF MeetsThreshold(tc.count[tc.keys[i]])
                   THEN add_word(v, tc.keys[i]) ELSE v,
                   tc, i + 1)

get_vocabulary(records) ==
    AssignIds(Vocabulary_init, CountRecords(EmptyCounts, records, 1), 1)

(***************************************************************************)
(* Vocabulary-building specification: a label file is drawn, the            *)
(* vocabulary built from it                                                 *)
(***************************************************************************)
\* " a a b"
CommentAAB == <<" ", "a", " ", "a", " ", "b">>
\* "a"
CommentA == <<"a">>
\* "b b b A b,"
CommentBBBA == <<"b", " ", "b", " ", "b", " ", "A", " ", "b", ",">>

CorpusComments == {CommentAAB, CommentA, CommentBBBA}
CorpusRecords == {[image_name |-> "i1", comment |-> c] : c \in CorpusComments}

InitBuild ==
    /\ corpus \in SeqsUpTo(CorpusRecords, MaxCorpus)
    /\ built = FALSE
    /\ IdleTok /\ IdleVocab /\ IdleData /\ IdleES

GetVocabulary ==
    /\ ~built
    /\ vocab' = get_vocabulary(corpus)
    /\ built' = TRUE
    /\ UNCHANGED <<corpus, vocabVars, tokVars, dataVars, esVars>>

NextBuild == GetVocabulary

SpecBuild == InitBuild /\ [][NextBuild]_vars

(***************************************************************************)
(* class FlickrConvRNN                                                      *)
(***************************************************************************)
\* defaultdict(list) with no key
EmptyLabels == [k \in {} |-> <<>>]

\* self.labels[key] on a defaultdict(list): the value read ...
DefaultDictGet(d, key) == IF key \in DOMAIN d THEN d[key] ELSE <<>>
\* ... and the dict afterwards: a missing key is inserted with the default
DefaultDictAfterGet(d, key) == IF key \in DOMAIN d THEN d ELSE d @@ (key :> <<>>)

RECURSIVE GroupRecords(_, _, _, _)
\* df = df[df["image_name"].isin(self.image_ids)];
\* for record in records: self.labels[name].append(comment.strip())
GroupRecords(lab, records, ids, i) ==
    IF i > Len(records) THEN lab
    ELSE LET r == records[i]
             name == r.image_name
         IN  IF name \in Range(ids)
             THEN GroupRecords(
                      [k \in DOMAIN lab \cup {name} |->
                          IF k = name
                          THEN Append(DefaultDictGet(lab, name), StrStrip(r.comment))
                          ELSE lab[k]],
                      records, ids, i + 1)
             ELSE GroupRecords(lab, records, ids, i + 1)

\* FlickrConvRNN.__init__: the labels mapping
FlickrConvRNN_init_labels(records, ids) == GroupRecords(EmptyLabels, records, ids, 1)

\* images = [image]; if not first_caption_only: images = images * 5
LoadImages(image_id, fco) ==
    IF fco THEN <<image_id>> ELSE [k \in 1..5 |-> image_id]

\* caption = [START_SEQ] + tokens + [END_SEQ]
WrapCaption(caption) == <<START_SEQ>> \o Tokenize(caption) \o <<END_SEQ>>

RECURSIVE CaptionLoop(_, _, _, _, _, _)
\* for i, caption in enumerate(captions): ...   (i counts from 0)
CaptionLoop(v, fco, captions, i, encoded_captions, all_captions) ==
    IF i >= Len(captions)
    THEN [captions |-> encoded_captions, all_captions |-> all_captions]
    ELSE LET caption == WrapCaption(captions[i + 1])
         IN  CaptionLoop(v, fco, captions, i + 1,
                 IF fco /\ i = 0
                 THEN Append(encoded_captions, encode_seq(v, caption))
                 ELSE encoded_captions,
                 Append(all_captions, caption))

\* FlickrConvRNN.__getitem__: the dict returned (idx counts from 0)
FlickrConvRNN_getitem(v, ids, lab, fco, idx) ==
    LET image_id == ids[idx + 1]
        loop == CaptionLoop(v, fco, DefaultDictGet(lab, image_id), 0, <<>>, <<>>)
    IN  [images       |-> LoadImages(image_id, fco),
         captions     |-> loop.captions,
         all_captions |-> loop.all_captions]

(***************************************************************************)
(* class BatchCollateFn                                                     *)
(***************************************************************************)
RECURSIVE Concat(_, _)
\* the nested for loops of __call__: every element of every list, in order
Concat(lists, i) == IF i > Len(lists) THEN <<>> ELSE lists[i] \o Concat(lists, i + 1)

SeqMax(s) == CHOOSE m \in Range(s) : \A x \in Range(s) : x <= m

\* a slip the width could have: the first caption's length
PadWidthFirst(lengths) == lengths[1]

\* max(lengths)
PadWidth(lengths) == SeqMax(lengths)

\* BatchCollateFn.__call__
BatchCollateFn_call(samples) ==
    LET images   == Concat([k \in DOMAIN samples |-> samples[k].images], 1)
        captions == Concat([k \in DOMAIN samples |-> samples[k].captions], 1)
        lengths  == [i \in DOMAIN captions |-> Len(captions[i])]
        all_caps == [k \in DOMAIN samples |-> samples[k].all_captions]
        failed(e) == [status |-> e, images |-> <<>>, captions_padded |-> <<>>,
                      lengths |-> <<>>, all_captions |-> <<>>]
    IN  IF images = <<>> THEN failed("RuntimeError")       \* torch.vstack([])
        ELSE IF lengths = <<>> THEN failed("ValueError")   \* max([])
        ELSE [status  |-> "ok",
              images  |-> images,
              captions_padded |->
                  [i \in DOMAIN captions |->
                      [j \in 1..PadWidth(lengths) |->
                          IF j <= lengths[i] THEN captions[i][j] ELSE 0]],
              lengths |-> lengths,
              all_captions |-> all_caps]

(***************************************************************************)
(* Dataset specification: a dataset is constructed over a drawn label file; *)
(* a loader fetches samples, collates them and moves to the next batch      *)
(***************************************************************************)
\* " A b 1"
CommentAb1 == <<" ", "A", " ", "b", " ", "1">>
\* "b, a"
CommentBcA == <<"b", ",", " ", "a">>
\* "!"
CommentBang == <<"!">>

DataComments == {CommentAb1, CommentBcA, CommentBang}
ImageNames == <<"i1", "i2", "i3">>
DataRecords == {[image_name |-> n, comment |-> c] : n \in Range(ImageNames), c \in DataComments}

\* the rows of the label file, in any order
LabelFiles == SeqsUpTo(DataRecords, MaxRecords)

\* the vocabulary handed to the dataset: "a" and "b" known, "1" not
DataVocab == add_word(add_word(Vocabulary_init, WordA), WordB)

InitData ==
    /\ vocab = DataVocab
    /\ seq = <<>> /\ enc = NoResult /\ dec = NoResult
    /\ image_ids \in {ImageNames, SubSeq(ImageNames, 1, 2)}
    /\ first_caption_only \in BOOLEAN
    /\ \E records \in LabelFiles : labels = FlickrConvRNN_init_labels(records, image_ids)
    /\ data = <<>>
    /\ batch = NoBatch
    /\ IdleTok /\ IdleBuild /\ IdleES

\* dataset[idx], the sample kept for the batch being assembled
GetItem(idx) ==
    /\ batch.status = None
    /\ Len(data) < MaxBatch
    /\ data' = Append(data, FlickrConvRNN_getitem(vocab, image_ids, labels,
                                                  first_caption_only, idx))
    /\ labels' = DefaultDictAfterGet(labels, image_ids[idx + 1])
    /\ UNCHANGED <<vocab, image_ids, first_caption_only, batch>>
    /\ UNCHANGED <<vocabVars, tokVars, buildVars, esVars>>

\* collate_fn(data)
Collate ==
    /\ batch.status = None
    /\ batch' = BatchCollateFn_call(data)
    /\ UNCHANGED <<vocab, image_ids, labels, first_caption_only, data>>
    /\ UNCHANGED <<vocabVars, tokVars, buildVars, esVars>>

\* the loader hands the batch over and starts the next one
NextBatch ==
    /\ batch.status # None
    /\ data' = <<>>
    /\ batch' = NoBatch
    /\ UNCHANGED <<vocab, image_ids, labels, first_caption_only>>
    /\ UNCHANGED <<vocabVars, tokVars, buildVars, esVars>>

NextData ==
    \/ \E idx \in 0..(Len(image_ids) - 1) : GetItem(idx)
    \/ Collate
    \/ NextBatch

SpecData == InitData /\ [][NextData]_vars

(***************************************************************************)
(* classes Callbacks and EarlyStopping.  Scores and the threshold are       *)
(* counted in one unit; float("inf") is a value above every score.          *)
(***************************************************************************)
Inf == 1000

\* if self.num_bad_epoch >= self.patience
ShouldExit(bad, pat) == bad >= pat

\* Callbacks.better_score
better_score(m, best, thr, score) ==
    IF m = "max" THEN (score - best) > thr
    ELSE IF m = "min" THEN (best - score) > thr
    ELSE FALSE

\* EarlyStopping.__init__: self.best_score
EarlyStopping_init_best(m) == IF m = "max" THEN 0 ELSE Inf

InitES ==
    /\ mode \in {"max", "min"}
    /\ patience \in 1..MaxPatience
    /\ threshold \in 0..MaxThreshold
    /\ save_final_model \in BOOLEAN
    /\ best_score = EarlyStopping_init_best(mode)
    /\ num_bad_epoch = 0
    /\ ret = None
    /\ best_model_pt = 0
    /\ final_model_pt = 0
    /\ epoch = 0
    /\ IdleTok /\ IdleVocab /\ IdleBuild /\ IdleData

\* EarlyStopping.__call__(model, score), with save_checkpoint and exit_training;
\* the model of a call is identified by the number of the call, and a
\* checkpoint file holds the number of the model saved in it (0: no file)
EarlyStopping_call(score) ==
    /\ epoch < MaxCalls
    /\ epoch' = epoch + 1
    /\ IF better_score(mode, best_score, threshold, score)
       THEN /\ best_score' = score
            /\ num_bad_epoch' = 0
            /\ best_model_pt' = epoch'
            /\ ret' = "True"
            /\ UNCHANGED final_model_pt
       ELSE /\ num_bad_epoch' = num_bad_epoch + 1
            /\ UNCHANGED <<best_score, best_model_pt>>
            /\ IF ShouldExit(num_bad_epoch', patience)
               THEN /\ final_model_pt' = IF save_final_model THEN epoch'
                                         ELSE final_model_pt
                    /\ ret' = "False"
               ELSE /\ ret' = "True"
                    /\ UNCHANGED final_model_pt
    /\ UNCHANGED <<mode, patience, threshold, save_final_model>>
    /\ UNCHANGED <<vocab, vocabVars, tokVars, buildVars, dataVars>>

NextES == \E score \in 0..MaxScore : EarlyStopping_call(score)

SpecES == InitES /\ [][NextES]_vars

(***************************************************************************)
(* Properties                                                               *)
(***************************************************************************)

\* ---- Tokenizer ----------------------------------------------------------

\* every whitespace-delimited piece lowercased and stripped of the characters
\* outside [A-Za-z0-9], a piece dropped only when nothing is left
StripEveryPiece(caption) ==
    LET pieces == StrSplit(caption)
    IN  SelectSeq([i \in DOMAIN pieces |-> NormalizePiece(pieces[i])], LAMBDA t : Len(t) > 0)

\* ["a", "cat", "sitting"]
ExampleTokens == <<WordA, WordCat, <<"s", "i", "t", "t", "i", "n", "g">>>>

\* C4: the tokenizer, in __getitem__ and in get_vocabulary, maps every
\* whitespace-delimited piece to its lowercase form stripped of the characters
\* outside [A-Za-z0-9], drops a piece only when nothing is left, keeps the
\* order; "A cat, sitting!" gives ["a", "cat", "sitting"].
C4_TokenizerStripsEveryPiece ==
    tokens.status = "ok" =>
        /\ tokens.value = StripEveryPiece(raw)
        /\ VocabTokenize(raw) = StripEveryPiece(raw)
        /\ raw = ExampleCaption => tokens.value = ExampleTokens

\* ---- Vocabulary ---------------------------------------------------------

RoundTrip ==
    dec.status # None =>
        /\ enc.status = "ok"
        /\ dec.status = "ok"
        /\ Len(enc.value) = Len(seq)
        /\ Len(dec.value) = Len(seq)
        /\ \A i \in DOMAIN seq :
              IF seq[i] \in DOMAIN vocab.word2idx
              THEN dec.value[i] = seq[i]
              ELSE enc.value[i] = 1 /\ dec.value[i] = UNK_WORD

\* C6: in any vocabulary state and for any token sequence, encode_seq does not
\* fail and decode_seq(encode_seq(tokens)) is tokens with every known token
\* unchanged and every unknown token replaced by UNK (its id being 1), of the
\* same length and order.  Stated of every step that leaves the vocabulary
\* as the call found it.
C6_DecodeEncodeRoundTrip == [][vocab' = vocab => RoundTrip']_vars

\* a known word and an unknown one were encoded and decoded
C6_Witness ==
    /\ WordA \in DOMAIN vocab.word2idx
    /\ seq = <<WordA, WordOne>>
    /\ dec = [status |-> "ok", value |-> <<WordA, UNK_WORD>>]

VocabularyConsistent ==
    LET w2i == vocab.word2idx
        i2w == vocab.idx2word
    IN  /\ DOMAIN i2w = {w2i[w] : w \in DOMAIN w2i}
        /\ \A w \in DOMAIN w2i : i2w[w2i[w]] = w
        /\ \A i \in DOMAIN i2w : i2w[i] \in DOMAIN w2i /\ w2i[i2w[i]] = i
        /\ Reserved \subseteq DOMAIN w2i
        /\ w2i[PAD] = 0 /\ w2i[UNK_WORD] = 1 /\ w2i[START_SEQ] = 2 /\ w2i[END_SEQ] = 3
        /\ DOMAIN i2w = 0..(vocab.idx - 1)
        /\ vocab.idx = Cardinality(DOMAIN w2i)

IdsKept ==
    \A w \in DOMAIN vocab.word2idx :
        w \in DOMAIN vocab'.word2idx /\ vocab'.word2idx[w] = vocab.word2idx[w]

\* C7: after construction and any add_word calls (repeated words and the
\* reserved strings included) word2idx and idx2word are inverse bijections,
\* PAD, UNK, START, END map to 0, 1, 2, 3, the ids are exactly 0..idx-1 with
\* idx = len(word2idx), and no word's id ever changes.
C7_VocabularyBijection == [](VocabularyConsistent) /\ [][IdsKept]_vars

\* three ordinary words were added
C7_Witness == vocab.idx = 7 /\ vocab.word2idx[WordCat] \in 4..6

\* ---- get_vocabulary -----------------------------------------------------

CorpusTokens ==
    Concat([i \in DOMAIN corpus |-> VocabTokenize(StrStrip(corpus[i].comment))], 1)

CorpusCount(t) == Cardinality({i \in DOMAIN CorpusTokens : CorpusTokens[i] = t})

FirstSeen(t) == CHOOSE i \in DOMAIN CorpusTokens :
                    /\ CorpusTokens[i] = t
                    /\ \A j \in DOMAIN CorpusTokens : CorpusTokens[j] = t => i <= j

\* the vocabulary holds the four reserved entries and exactly the tokens seen
\* at least m times, numbered from 4 in the order first seen
BuiltWithThreshold(m) ==
    LET kept == {t \in Range(CorpusTokens) : CorpusCount(t) >= m}
        w2i  == vocab.word2idx
    IN  /\ DOMAIN w2i = Reserved \cup kept
        /\ kept \cap Reserved = {}
        /\ w2i[PAD] = 0 /\ w2i[UNK_WORD] = 1 /\ w2i[START_SEQ] = 2 /\ w2i[END_SEQ] = 3
        /\ {w2i[t] : t \in kept} = 4..(3 + Cardinality(kept))
        /\ \A t, u \in kept : FirstSeen(t) < FirstSeen(u) => w2i[t] < w2i[u]
        /\ Vocabulary_len(vocab) = 4 + Cardinality(kept)

\* C5 as stated: for any configured min_frequency the vocabulary built holds
\* the reserved entries and exactly the tokens counted at least min_frequency
\* times, ids 4.. in first-encountered order.
C5_AnyConfiguredThreshold ==
    built => \A min_frequency \in 1..(MinFrequency + 1) : BuiltWithThreshold(min_frequency)

\* C5, amended: the threshold is the fixed 5 of the code; the vocabulary built
\* holds the reserved entries (ids 0-3) and exactly the tokens counted at least
\* 5 times, ids 4.. contiguous in first-encountered order, so that
\* len(vocab) = 4 + the number of such tokens.
C5_FixedThreshold == built => BuiltWithThreshold(MinFrequency)

\* a token counted exactly 5 times is in, one counted exactly 4 times is out
C5_Witness ==
    /\ built
    /\ \E t \in Range(CorpusTokens) : CorpusCount(t) = 5 /\ t \in DOMAIN vocab.word2idx
    /\ \E u \in Range(CorpusTokens) : CorpusCount(u) = 4 /\ u \notin DOMAIN vocab.word2idx

\* ---- FlickrConvRNN.__getitem__ ------------------------------------------

EncodedCaption(caption) ==
    encode_seq(vocab, <<START_SEQ>> \o Tokenize(caption) \o <<END_SEQ>>)

\* C1: a sample's encoded-captions list holds exactly the encoding of the
\* first caption in first-caption-only mode, and the encoding of every caption
\* of the image, in caption order, otherwise.
C1_EncodedCaptionsPerMode ==
    \A k \in DOMAIN data :
        LET captions == DefaultDictGet(labels, data[k].images[1])
        IN  IF first_caption_only
            THEN data[k].captions = IF captions = <<>> THEN <<>>
                                    ELSE <<EncodedCaption(captions[1])>>
            ELSE data[k].captions = [i \in DOMAIN captions |-> EncodedCaption(captions[i])]

\* C8: a call for an image of the split with no caption fails; no sample with
\* empty caption lists is returned.
C8_NoSampleWithoutCaptions ==
    \A k \in DOMAIN data : data[k].all_captions # <<>>

\* C9: no call of __getitem__, for any index in either mode, changes the
\* vocabulary, the labels mapping or image_ids.
C9_GetItemLeavesSharedStateUnchanged ==
    [][vocab' = vocab /\ labels' = labels /\ image_ids' = image_ids]_vars

\* ---- BatchCollateFn -----------------------------------------------------

\* for each position of the flattened list, the number of the sample it is from
Owners(lists) == Concat([k \in DOMAIN lists |-> [j \in DOMAIN lists[k] |-> k]], 1)

\* C2: in a batch built from a non-empty list of samples there are as many
\* stacked images as rows of captions_padded, and images[i] and
\* captions_padded[i] come from the same sample, for every i.
C2_ImagesAlignedWithCaptions ==
    batch.status = "ok" =>
        /\ Len(batch.images) = Len(batch.captions_padded)
        /\ Owners([k \in DOMAIN data |-> data[k].images])
             = Owners([k \in DOMAIN data |-> data[k].captions])

BatchCaptions == Concat([k \in DOMAIN data |-> data[k].captions], 1)

\* C3: for a batch with at least one encoded caption the collate function
\* returns the true caption lengths in sample order and one row per caption of
\* width max(lengths), row i being caption i unchanged followed by PAD (0);
\* nothing is truncated.
C3_PaddingKeepsCaptions ==
    (batch.status # None /\ BatchCaptions # <<>>) =>
        /\ batch.status = "ok"
        /\ batch.lengths = [i \in DOMAIN BatchCaptions |-> Len(BatchCaptions[i])]
        /\ DOMAIN batch.captions_padded = DOMAIN BatchCaptions
        /\ \A i \in DOMAIN BatchCaptions :
              LET row == batch.captions_padded[i]
                  n   == Len(BatchCaptions[i])
              IN  /\ \A m \in DOMAIN BatchCaptions : Len(row) >= Len(BatchCaptions[m])
                  /\ \E m \in DOMAIN BatchCaptions : Len(row) = Len(BatchCaptions[m])
                  /\ SubSeq(row, 1, n) = BatchCaptions[i]
                  /\ \A j \in (n + 1)..Len(row) : row[j] = 0

\* captions of lengths [3,5,2]: width 5, two pads in row 0, three in row 2
C3_Witness ==
    /\ batch.status = "ok"
    /\ batch.lengths = <<3, 5, 2>>
    /\ batch.captions_padded = << <<2, 4, 3, 0, 0>>, <<2, 4, 5, 1, 3>>, <<2, 3, 0, 0, 0>> >>

\* ---- EarlyStopping ------------------------------------------------------

\* the score improves on the best one by more than the threshold
Improves(score) ==
    IF mode = "max" THEN score - best_score > threshold
    ELSE best_score - score > threshold

\* C10: a call returns False only when the score has failed to improve for
\* more than `patience` consecutive calls since the last improvement, True on
\* every earlier call; an improving call sets best_score to the score, resets
\* num_bad_epoch and saves the best-model checkpoint; any other call leaves
\* best_score unchanged.
C10_ExitAfterMoreThanPatience ==
    [][\E score \in 0..MaxScore :
          IF Improves(score)
          THEN /\ best_score' = score
               /\ num_bad_epoch' = 0
               /\ best_model_pt' = epoch'
               /\ ret' = "True"
          ELSE /\ best_score' = best_score
               /\ num_bad_epoch' = num_bad_epoch + 1
               /\ ret' = (IF num_bad_epoch' > patience THEN "False" ELSE "True")]_vars

====
